---- MODULE Spec2Model ----
(***************************************************************************)
(* AgentCoordinator (src/agents/coordinator.py): selection, execution with *)
(* the default-agent fallback, and combination of agent results.           *)
(*                                                                         *)
(* Agents are opaque objects 1..MaxAgents.  What an agent does with the    *)
(* task (evaluate_suitability, log_activity, process) is an input of the   *)
(* model: the outcome of each call is chosen when the call is first made   *)
(* and kept (agents are deterministic on one task).  Scores and            *)
(* confidences are in tenths (0.5 is 5).                                   *)
(***************************************************************************)
EXTENDS Integers, Sequences, FiniteSets, TLC

\* ---------------------------------------------------------------- bounds
MaxAgents == 3

\* the longest list a vector store answers a search with
MaxHits == 2

\* the most agents of a coordinator that runs two calls at the same time
MaxShared == 2

\* the most background jobs the async-query endpoint is asked for
MaxJobs == 3

\* ------------------------------------------------------------- constants
\* Python's None where an agent is expected
NoAgent == 0

\* the universe of agent objects
Universe == 1..MaxAgents

\* agent.name of the i-th agent object, when all names differ
BaseNames == <<"A", "B", "C", "D", "E">>

\* str.lower() on the strings the model uses
LowerMap ==
    [s \in {"", "A", "a", "B", "b", "C", "c", "D", "d", "E", "e", "Z", "z"} |->
        CASE s = "A" -> "a" [] s = "B" -> "b" [] s = "C" -> "c"
          [] s = "D" -> "d" [] s = "E" -> "e" [] s = "Z" -> "z"
          [] OTHER -> s]

lower(s) == LowerMap[s]

\* the names of the agent objects: all different, or agent 2 is named "a",
\* which equals agent 1's name "A" ignoring case (the constructor accepts it)
NameTable(dup) ==
    [h \in Universe |-> IF dup /\ h = 2 THEN "a" ELSE BaseNames[h]]

\* values of confidence_threshold the model constructs coordinators with
Thresholds == {5}

\* what evaluate_suitability does: raises, or returns a score
EvalOutcomes ==
    {[st |-> "raise"]} \cup {[st |-> "ok", score |-> s] : s \in {0, 3, 5, 9}}

\* what log_activity followed by process does on an agent: log_activity
\* raises (process is never reached), process raises, or process returns a
\* result mapping with or without a "confidence" key
ExecOutcomes ==
    {[st |-> "log_raise"], [st |-> "proc_raise"], [st |-> "ok", has_conf |-> FALSE]}
    \cup {[st |-> "ok", has_conf |-> TRUE, confidence |-> c] : c \in {6, 8}}

Unset == [st |-> "unset"]

\* the tasks callers submit: the field preferred_agent is omitted, empty,
\* a registered name in another case, a name, or a name nobody has
Tasks ==
    {[query |-> "q"]}
    \cup {[query |-> "q", preferred_agent |-> p] : p \in {"", "a", "B", "Z"}}

VARIABLES
    ctor,                  \* "none", "ok", "config_error": the constructor's outcome
    init_args,             \* <<default_agent argument>> of __init__, until the first call
    agents,                \* self.agents: the registration list
    names,                 \* agent.name of every agent object
    default_agent,         \* self.default_agent
    enable_parallel,       \* self.enable_parallel
    confidence_threshold,  \* self.confidence_threshold
    evalOut,               \* per agent: what evaluate_suitability(task) does
    execOut,               \* per agent: what log_activity + process(task) does
    pc,                    \* process_task: "idle","evaluating","executing","returned","raised"
    task,                  \* the task of the call
    evals,                 \* evaluation_tasks: per registration index "pending"/"done"
    agent_scores,          \* the ranked list of (name, score), with the scoring agent
    mode,                  \* "none","preferred","default","single","parallel"
    label_agents,          \* the agents whose metadata is attached to the results
    branches,              \* the _execute_agent coroutines of the call
    outcome,               \* what process_task returned
    inflight,              \* branches unfinished when process_task returned/raised
    evalCalls,             \* spy: evaluate_suitability calls per agent
    logCalls,              \* spy: log_activity calls per agent
    procCalls,             \* spy: process calls per agent
    calls,                 \* process_task calls that ran to the end before this one
    first,                 \* what the first call did, once a second one follows
    completed,             \* the branches in the order they finished, until process_task ends
    passed,                \* spy: the task mappings the agents were called with
    other,                 \* the locals of a second process_task call that is suspended
    retriever,             \* the HybridSearchRetriever: its top_k, once constructed
    searched,              \* the last search: its arguments, the store's answers, its result
    TASKS,                 \* the status store of the background jobs, by task id
    jobs,                  \* per task id: where its background job is
    reply                  \* the last response of the job endpoints

config == <<ctor, agents, names, default_agent, enable_parallel, confidence_threshold>>
spies == <<evalCalls, logCalls, procCalls>>
vars == <<ctor, init_args, agents, names, default_agent, enable_parallel, confidence_threshold,
          evalOut, execOut, pc, task, evals, agent_scores, mode, label_agents,
          branches, outcome, inflight, evalCalls, logCalls, procCalls, calls, first,
          completed, passed, other, retriever, searched, TASKS, jobs, reply>>
history == <<calls, first>>
rag == <<retriever, searched>>
api == <<TASKS, jobs, reply>>
coordinator == <<ctor, init_args, agents, names, default_agent, enable_parallel,
                 confidence_threshold, evalOut, execOut, pc, task, evals, agent_scores,
                 mode, label_agents, branches, outcome, inflight, evalCalls, logCalls,
                 procCalls, calls, first, completed, passed, other>>

NoOutcome == [kind |-> "none"]

\* the locals of a process_task call that has not started
IdleFrame ==
    [pc |-> "idle", task |-> [query |-> "q"], evals |-> <<>>, agent_scores |-> <<>>,
     mode |-> "none", label_agents |-> <<>>, branches |-> <<>>, outcome |-> NoOutcome,
     inflight |-> {}, completed |-> <<>>, passed |-> {}]
NoSummary == [none |-> TRUE]
NoRetriever == [none |-> TRUE]
NoSearch == [none |-> TRUE]
NoReply == [http |-> 0]

Init ==
    /\ ctor = "none"
    /\ init_args = <<>>
    /\ agents = <<>>
    /\ names = NameTable(FALSE)
    /\ default_agent = NoAgent
    /\ enable_parallel = FALSE
    /\ confidence_threshold = 5
    /\ evalOut = [h \in Universe |-> Unset]
    /\ execOut = [h \in Universe |-> Unset]
    /\ pc = "idle"
    /\ task = [query |-> "q"]
    /\ evals = <<>>
    /\ agent_scores = <<>>
    /\ mode = "none"
    /\ label_agents = <<>>
    /\ branches = <<>>
    /\ outcome = NoOutcome
    /\ inflight = {}
    /\ evalCalls = [h \in Universe |-> 0]
    /\ logCalls = [h \in Universe |-> 0]
    /\ procCalls = [h \in Universe |-> 0]
    /\ calls = 0
    /\ first = NoSummary
    /\ completed = <<>>
    /\ passed = {}
    /\ other = IdleFrame
    /\ retriever = NoRetriever
    /\ searched = NoSearch
    /\ TASKS = <<>>
    /\ jobs = [id \in 1..MaxJobs |-> "none"]
    /\ reply = NoReply

\* ------------------------------------------------------------ __init__
\* a constructor that takes the default agent as it is given
DefaultOfAsGiven(d, ags) == d

\* default_agent or (agents[0] if agents else None)
DefaultOf(d, ags) ==
    IF d # NoAgent THEN d ELSE IF Len(ags) > 0 THEN ags[1] ELSE NoAgent

\* a constructor that never validates the list
ValidateNothing(ags) == "ok"

\* if not agents: raise ValueError("At least one agent must be provided")
Validate(ags) == IF Len(ags) = 0 THEN "config_error" ELSE "ok"

\* AgentCoordinator(agents, default_agent, enable_parallel, threshold) with a
\* list of at most most agents: the first n agent objects, in order.
ConstructUpTo(most) ==
    /\ ctor = "none"
    /\ \E n \in 0..most, dup \in BOOLEAN, d \in {NoAgent} \cup Universe,
          par \in BOOLEAN, thr \in Thresholds :
        /\ agents' = [i \in 1..n |-> i]
        /\ names' = NameTable(dup)
        /\ default_agent' = DefaultOf(d, [i \in 1..n |-> i])
        /\ enable_parallel' = par
        /\ confidence_threshold' = thr
        /\ ctor' = Validate([i \in 1..n |-> i])
        /\ init_args' = <<d>>
    /\ UNCHANGED <<evalOut, execOut, pc, task, evals, agent_scores, mode,
                   label_agents, branches, outcome, inflight, spies, history, rag, api, completed, passed, other>>

Construct == ConstructUpTo(MaxAgents)

\* ------------------------------------------------------------- helpers
\* a lookup that goes on after a match and returns the last one
RECURSIVE FindAgentLast(_, _)
FindAgentLast(name, i) ==
    IF i > Len(agents) THEN NoAgent
    ELSE LET later == FindAgentLast(name, i + 1)
         IN  IF later # NoAgent THEN later
             ELSE IF lower(names[agents[i]]) = lower(name) THEN agents[i]
             ELSE NoAgent

\* for agent in self.agents: if agent.name.lower() == name.lower(): return
\* agent; return None after the loop.  The loop from registration index i on.
RECURSIVE FindAgent(_, _)
FindAgent(name, i) ==
    IF i > Len(agents) THEN NoAgent
    ELSE IF lower(names[agents[i]]) = lower(name) THEN agents[i]
    ELSE FindAgent(name, i + 1)

\* _get_agent_by_name: the first registered agent with that name, ignoring
\* case, or None
GetAgentByName(name) == FindAgent(name, 1)

\* an override that reads the field under another key
PreferredGivenOtherKey(t) == "preferred_handler" \in DOMAIN t /\ t.preferred_handler # ""

\* task.get("preferred_agent") is truthy
PreferredGiven(t) == "preferred_agent" \in DOMAIN t /\ t.preferred_agent # ""

\* an override that compares names exactly
PreferredAgentExactCase(t) ==
    IF PreferredGiven(t) /\ \E i \in 1..Len(agents) : names[agents[i]] = t.preferred_agent
    THEN GetAgentByName(t.preferred_agent) ELSE NoAgent

\* an override that takes the default agent for a name nobody has
PreferredAgentOrDefault(t) ==
    IF ~PreferredGiven(t) THEN NoAgent
    ELSE IF GetAgentByName(t.preferred_agent) = NoAgent THEN default_agent
    ELSE GetAgentByName(t.preferred_agent)

\* the agent the explicit override selects, or None
PreferredAgent(t) ==
    IF PreferredGiven(t) THEN GetAgentByName(t.preferred_agent) ELSE NoAgent

\* result.get("confidence", 0)
GetConfidence(result) ==
    IF "confidence" \in DOMAIN result THEN result.confidence ELSE 0

\* the agent objects whose process puts its own values under the keys the
\* coordinator sets afterwards (the odd-numbered objects do, the others not)
SelfLabelled(h) == h % 2 = 1

\* what such an agent puts there
OwnLabels ==
    [agent_name |-> "self", agent_description |-> -1, execution_time |-> "own_time"]

\* the agent objects whose result has a "sources" field, as the research
\* agent's has (every agent object but the first)
WithSources(h) == h > 1

\* the mapping an agent's process returns: its content, its confidence when
\* it reports one, its own labels when it is an agent that sets them, and
\* its sources when it is an agent that cites them
ResultOf(h, o) ==
    (IF o.has_conf THEN [content |-> h, confidence |-> o.confidence]
     ELSE [content |-> h])
    @@ (IF SelfLabelled(h) THEN OwnLabels ELSE <<>>)
    @@ (IF WithSources(h) THEN [sources |-> "docs"] ELSE <<>>)

\* a _prepare_result that keeps what the agent put under the three keys:
\* {agent_name, agent_description, execution_time, **result}
PrepareResultKeepingOwn(result, agent) ==
    result @@ [agent_name |-> names[agent],
               agent_description |-> agent,
               execution_time |-> "elapsed"]

\* _prepare_result: {**result, agent_name, agent_description, execution_time}
PrepareResult(result, agent) ==
    [agent_name |-> names[agent],
     agent_description |-> agent,
     execution_time |-> "elapsed"] @@ result

\* a sort that is not stable from the second call on: equal scores come out
\* in the opposite order
RECURSIVE InsertDescUnstableLater(_, _)
InsertDescUnstableLater(e, s) ==
    IF s = <<>> THEN <<e>>
    ELSE IF (IF calls = 0 THEN Head(s).score >= e.score ELSE Head(s).score > e.score)
         THEN <<Head(s)>> \o InsertDescUnstableLater(e, Tail(s))
         ELSE <<e>> \o s

\* scores.sort(key=score, reverse=True): a stable sort, equal scores keep
\* their order.  Insert(e, s) puts e after every element with score >= e's.
RECURSIVE InsertDesc(_, _)
InsertDesc(e, s) ==
    IF s = <<>> THEN <<e>>
    ELSE IF Head(s).score >= e.score THEN <<Head(s)>> \o InsertDesc(e, Tail(s))
    ELSE <<e>> \o s

RECURSIVE SortDesc(_)
SortDesc(s) ==
    IF s = <<>> THEN <<>>
    ELSE InsertDesc(s[Len(s)], SortDesc(SubSeq(s, 1, Len(s) - 1)))

\* a ranking that keeps the agents that scored 0
RECURSIVE PositiveScoresOrZero(_, _)
PositiveScoresOrZero(results, i) ==
    IF i > Len(results) THEN <<>>
    ELSE (IF results[i] >= 0
          THEN <<[name |-> names[agents[i]], score |-> results[i], src |-> agents[i]]>>
          ELSE <<>>) \o PositiveScoresOrZero(results, i + 1)

\* for i, score in enumerate(results): if score > 0: scores.append(...)
RECURSIVE PositiveScores(_, _)
PositiveScores(results, i) ==
    IF i > Len(results) THEN <<>>
    ELSE (IF results[i] > 0
          THEN <<[name |-> names[agents[i]], score |-> results[i], src |-> agents[i]]>>
          ELSE <<>>) \o PositiveScores(results, i + 1)

\* _evaluate_agents, once gather has returned the scores in registration order
EvaluateAgents(results) == SortDesc(PositiveScores(results, 1))

\* [self._get_agent_by_name(name) for name, score in agent_scores
\*  if score >= self.confidence_threshold]
RECURSIVE ParallelAgents(_)
ParallelAgents(ranked) ==
    IF ranked = <<>> THEN <<>>
    ELSE (IF Head(ranked).score >= confidence_threshold
          THEN <<GetAgentByName(Head(ranked).name)>>
          ELSE <<>>) \o ParallelAgents(Tail(ranked))

\* a loop that also replaces its choice by a later result of equal confidence
RECURSIVE BestIndexOrEqual(_, _, _, _)
BestIndexOrEqual(results, i, best_confidence, best) ==
    IF i > Len(results) THEN best
    ELSE IF GetConfidence(results[i]) >= best_confidence
         THEN BestIndexOrEqual(results, i + 1, GetConfidence(results[i]), i)
         ELSE BestIndexOrEqual(results, i + 1, best_confidence, best)

\* the loop of _combine_results: the index of the chosen result, 0 if none
RECURSIVE BestIndex(_, _, _, _)
BestIndex(results, i, best_confidence, best) ==
    IF i > Len(results) THEN best
    ELSE IF GetConfidence(results[i]) > best_confidence
         THEN BestIndex(results, i + 1, GetConfidence(results[i]), i)
         ELSE BestIndex(results, i + 1, best_confidence, best)

\* a combination over the results in the order the branches finished, as
\* asyncio.as_completed would hand them over
CombineResultsAsCompleted(results, ags) ==
    LET b == BestIndex([k \in 1..Len(results) |-> results[completed[k]]], 1, -1, 0)
    IN  PrepareResult(results[completed[b]], ags[completed[b]])

\* a combination that fills the chosen result up with the fields of the
\* other results
CombineResultsMerged(results, ags) ==
    LET b == BestIndex(results, 1, -1, 0)
    IN  PrepareResult(results[b] @@ results[1] @@ results[Len(results)], ags[b])

\* a combination that starts from confidence 0 and attributes the first
\* result to the default agent when no result is above it
CombineResultsNoneToDefault(results, ags) ==
    LET b == BestIndex(results, 1, 0, 0)
    IN  IF b # 0 THEN PrepareResult(results[b], ags[b])
        ELSE PrepareResult(results[1], default_agent)

\* _combine_results(results, agents, execution_time)
CombineResults(results, ags) ==
    LET b == BestIndex(results, 1, -1, 0)
    IN  IF b # 0 THEN PrepareResult(results[b], ags[b])
        ELSE PrepareResult(results[1], ags[1])

NoResult == [none |-> TRUE]

\* a fresh _execute_agent(agent, task) coroutine
Branch(a) == [agent |-> a, pc |-> "primary", result |-> NoResult]

BranchesOf(ags) == [i \in 1..Len(ags) |-> Branch(ags[i])]

\* a coordinator that hands the agents the task without the field it has
\* consumed itself
ArgumentWithoutPreferred(t) == [query |-> t.query]

\* agent.evaluate_suitability(task), agent.process(task),
\* self.default_agent.process(task): the caller's mapping itself is passed
Argument(t) == t

\* ---------------------------------------------------------- process_task
\* process_task(task), lines 61-72: the explicit override, or the start of
\* the concurrent suitability evaluation
ProcessTask ==
    /\ ctor = "ok"
    /\ pc = "idle"
    /\ \E t \in Tasks :
        /\ task' = t
        /\ IF PreferredAgent(t) # NoAgent
           THEN /\ pc' = "executing"
                /\ mode' = "preferred"
                /\ label_agents' = <<PreferredAgent(t)>>
                /\ branches' = BranchesOf(<<PreferredAgent(t)>>)
                /\ evals' = evals
           ELSE /\ pc' = "evaluating"
                /\ evals' = [i \in 1..Len(agents) |-> "pending"]
                /\ UNCHANGED <<mode, label_agents, branches>>
    /\ init_args' = <<>>
    /\ UNCHANGED <<config, evalOut, execOut, agent_scores, outcome, inflight, spies,
                   history, rag, api, completed, passed, other>>

\* one evaluation task of asyncio.gather(*evaluation_tasks) runs:
\* agents[i].evaluate_suitability(task) returns a score or raises
Evaluate(i) ==
    /\ i \in DOMAIN evals
    /\ evals[i] = "pending"
    /\ \E o \in EvalOutcomes :
        /\ evalOut[agents[i]] \in {Unset, o}
        /\ evalOut' = [evalOut EXCEPT ![agents[i]] = o]
    /\ evals' = [evals EXCEPT ![i] = "done"]
    /\ passed' = passed \cup {Argument(task)}
    /\ evalCalls' = [evalCalls EXCEPT ![agents[i]] = @ + 1]
    /\ UNCHANGED <<other, rag, api, config, init_args, execOut, pc, task, agent_scores, mode, label_agents,
                   branches, outcome, inflight, logCalls, procCalls, history, completed>>

EvalRaised(i) == evals[i] = "done" /\ evalOut[agents[i]].st = "raise"

\* gather propagates the first exception of an evaluation to process_task,
\* which has no handler for it; the other evaluations keep running
EvaluateRaises ==
    /\ pc = "evaluating"
    /\ \E i \in DOMAIN evals : EvalRaised(i)
    /\ pc' = "raised"
    /\ outcome' = [kind |-> "raised", at |-> "evaluate"]
    /\ UNCHANGED <<other, rag, api, config, init_args, evalOut, execOut, task, evals, agent_scores, mode,
                   label_agents, branches, inflight, spies, history, completed, passed>>

\* gather returned every score: lines 132-138 rank them, lines 79-104 choose
\* the default agent, the fan-out or the best agent and start the execution
Rank ==
    /\ pc = "evaluating"
    /\ \A i \in DOMAIN evals : evals[i] = "done" /\ ~EvalRaised(i)
    /\ LET results == [i \in 1..Len(agents) |-> evalOut[agents[i]].score]
           ranked == EvaluateAgents(results)
           best_agent == GetAgentByName(ranked[1].name)
           parallel_agents == ParallelAgents(ranked)
       IN  /\ agent_scores' = ranked
           /\ IF ranked = <<>>
              THEN IF default_agent = NoAgent
                   THEN /\ pc' = "raised"
                        /\ outcome' = [kind |-> "raised", at |-> "no_default"]
                        /\ UNCHANGED <<mode, label_agents, branches>>
                   ELSE /\ pc' = "executing"
                        /\ mode' = "default"
                        /\ label_agents' = <<default_agent>>
                        /\ branches' = BranchesOf(<<default_agent>>)
                        /\ outcome' = outcome
              ELSE IF enable_parallel /\ Len(ranked) > 1 /\ Len(parallel_agents) > 1
                   THEN /\ pc' = "executing"
                        /\ mode' = "parallel"
                        /\ label_agents' = parallel_agents
                        /\ branches' = BranchesOf(parallel_agents)
                        /\ outcome' = outcome
                   ELSE /\ pc' = "executing"
                        /\ mode' = "single"
                        /\ label_agents' = <<best_agent>>
                        /\ branches' = BranchesOf(<<best_agent>>)
                        /\ outcome' = outcome
    /\ UNCHANGED <<other, rag, api, config, init_args, evalOut, execOut, task, evals, inflight, spies, history, completed, passed>>

\* ---------------------------------------------------------- _execute_agent
\* branch b finishes (returns or raises) while process_task awaits it
Finish(b) == IF pc = "executing" THEN Append(completed, b) ELSE completed

\* lines 151-163: log_activity and process of the agent; on an exception the
\* default agent re-raises, any other agent goes on to the fallback
ExecutePrimary(b) ==
    /\ b \in DOMAIN branches
    /\ branches[b].pc = "primary"
    /\ LET a == branches[b].agent
       IN  \E o \in ExecOutcomes :
            /\ execOut[a] \in {Unset, o}
            /\ execOut' = [execOut EXCEPT ![a] = o]
            /\ logCalls' = [logCalls EXCEPT ![a] = @ + 1]
            /\ procCalls' = [procCalls EXCEPT ![a] = IF o.st = "log_raise" THEN @ ELSE @ + 1]
            /\ branches' = [branches EXCEPT ![b] =
                    IF o.st = "ok" THEN [@ EXCEPT !.pc = "done", !.result = ResultOf(a, o)]
                    ELSE IF a = default_agent THEN [@ EXCEPT !.pc = "fatal"]
                    ELSE [@ EXCEPT !.pc = "fallback"]]
            /\ completed' = IF o.st = "ok" \/ a = default_agent
                            THEN Finish(b) ELSE completed
            /\ passed' = IF o.st = "log_raise" THEN passed ELSE passed \cup {Argument(task)}
    /\ UNCHANGED <<other, rag, api, config, init_args, evalOut, pc, task, evals, agent_scores, mode,
                   label_agents, outcome, inflight, evalCalls, history>>

\* a fallback that tries the default agent again when it fails
ExecuteFallbackAgain(b) ==
    /\ b \in DOMAIN branches
    /\ branches[b].pc = "fallback"
    /\ LET d == default_agent
       IN  \E o \in ExecOutcomes :
            /\ execOut[d] \in {Unset, o}
            /\ execOut' = [execOut EXCEPT ![d] = o]
            /\ logCalls' = [logCalls EXCEPT ![d] = @ + 1]
            /\ procCalls' = [procCalls EXCEPT ![d] = IF o.st = "log_raise" THEN @ ELSE @ + 1]
            /\ branches' = [branches EXCEPT ![b] =
                    IF o.st = "ok" THEN [@ EXCEPT !.pc = "done", !.result = ResultOf(d, o)]
                    ELSE @]
            /\ completed' = IF o.st = "ok" THEN Finish(b) ELSE completed
            /\ passed' = IF o.st = "log_raise" THEN passed ELSE passed \cup {Argument(task)}
    /\ UNCHANGED <<other, rag, api, config, init_args, evalOut, pc, task, evals, agent_scores, mode,
                   label_agents, outcome, inflight, evalCalls, history>>

\* lines 165-169: log_activity and process of the default agent, unguarded
ExecuteFallback(b) ==
    /\ b \in DOMAIN branches
    /\ branches[b].pc = "fallback"
    /\ LET d == default_agent
       IN  \E o \in ExecOutcomes :
            /\ execOut[d] \in {Unset, o}
            /\ execOut' = [execOut EXCEPT ![d] = o]
            /\ logCalls' = [logCalls EXCEPT ![d] = @ + 1]
            /\ procCalls' = [procCalls EXCEPT ![d] = IF o.st = "log_raise" THEN @ ELSE @ + 1]
            /\ branches' = [branches EXCEPT ![b] =
                    IF o.st = "ok" THEN [@ EXCEPT !.pc = "done", !.result = ResultOf(d, o)]
                    ELSE [@ EXCEPT !.pc = "fatal"]]
            /\ completed' = Finish(b)
            /\ passed' = IF o.st = "log_raise" THEN passed ELSE passed \cup {Argument(task)}
    /\ UNCHANGED <<other, rag, api, config, init_args, evalOut, pc, task, evals, agent_scores, mode,
                   label_agents, outcome, inflight, evalCalls, history>>

Unfinished == {b \in DOMAIN branches : branches[b].pc \in {"primary", "fallback"}}

\* lines 69, 85, 109: the single execution returned; the result is enriched
\* with the metadata of the agent that was selected
ReturnSingle ==
    /\ pc = "executing"
    /\ mode # "parallel"
    /\ branches[1].pc = "done"
    /\ pc' = "returned"
    /\ outcome' = [kind |-> "result",
                   result |-> PrepareResult(branches[1].result, label_agents[1])]
    /\ inflight' = Unfinished
    /\ UNCHANGED <<other, rag, api, config, init_args, evalOut, execOut, task, evals, agent_scores, mode,
                   label_agents, branches, spies, history, completed, passed>>

\* lines 68, 84, 108: the exception of the single execution leaves process_task
RaiseSingle ==
    /\ pc = "executing"
    /\ mode # "parallel"
    /\ branches[1].pc = "fatal"
    /\ pc' = "raised"
    /\ outcome' = [kind |-> "raised", at |-> "execute"]
    /\ inflight' = Unfinished
    /\ UNCHANGED <<other, rag, api, config, init_args, evalOut, execOut, task, evals, agent_scores, mode,
                   label_agents, branches, spies, history, completed, passed>>

\* lines 103-104: gather returned every branch's result, in fan-out order
ReturnCombined ==
    /\ pc = "executing"
    /\ mode = "parallel"
    /\ \A b \in DOMAIN branches : branches[b].pc = "done"
    /\ pc' = "returned"
    /\ outcome' = [kind |-> "result",
                   result |-> CombineResults(
                       [b \in 1..Len(branches) |-> branches[b].result], label_agents)]
    /\ inflight' = Unfinished
    /\ UNCHANGED <<other, rag, api, config, init_args, evalOut, execOut, task, evals, agent_scores, mode,
                   label_agents, branches, spies, history, completed, passed>>

\* line 191: gather (return_exceptions is False) propagates the first
\* exception of a branch at once; the other branches are not cancelled
RaiseGathered ==
    /\ pc = "executing"
    /\ mode = "parallel"
    /\ \E b \in DOMAIN branches : branches[b].pc = "fatal"
    /\ pc' = "raised"
    /\ outcome' = [kind |-> "raised", at |-> "execute"]
    /\ inflight' = Unfinished
    /\ UNCHANGED <<other, rag, api, config, init_args, evalOut, execOut, task, evals, agent_scores, mode,
                   label_agents, branches, spies, history, completed, passed>>

Next ==
    \/ Construct
    \/ ProcessTask
    \/ \E i \in 1..MaxAgents : Evaluate(i)
    \/ EvaluateRaises
    \/ Rank
    \/ \E b \in 1..MaxAgents : ExecutePrimary(b)
    \/ \E b \in 1..MaxAgents : ExecuteFallback(b)
    \/ ReturnSingle
    \/ RaiseSingle
    \/ ReturnCombined
    \/ RaiseGathered

Spec == Init /\ [][Next]_vars

\* ------------------------------------------------ one call after another
\* every coroutine of the call has run to its end
Quiescent ==
    /\ pc \in {"returned", "raised"}
    /\ \A i \in DOMAIN evals : evals[i] = "done"
    /\ Unfinished = {}

\* what a caller and the agents' spies saw of the call
Summary ==
    [task |-> task, outcome |-> outcome, mode |-> mode, executed |-> label_agents,
     evalCalls |-> evalCalls, logCalls |-> logCalls, procCalls |-> procCalls]

\* the caller makes a second call on the same coordinator, with the same
\* agents, which do on the same query what they did before
NextCall ==
    /\ Quiescent
    /\ calls = 0
    /\ calls' = calls + 1
    /\ first' = Summary
    /\ pc' = "idle"
    /\ evals' = <<>>
    /\ agent_scores' = <<>>
    /\ mode' = "none"
    /\ label_agents' = <<>>
    /\ branches' = <<>>
    /\ outcome' = NoOutcome
    /\ inflight' = {}
    /\ completed' = <<>>
    /\ passed' = {}
    /\ evalCalls' = [h \in Universe |-> 0]
    /\ logCalls' = [h \in Universe |-> 0]
    /\ procCalls' = [h \in Universe |-> 0]
    /\ UNCHANGED <<other, rag, api, config, init_args, evalOut, execOut, task>>

NextPair == Next \/ NextCall

SpecPair == Init /\ [][NextPair]_vars

TypeOK ==
    /\ ctor \in {"none", "ok", "config_error"}
    /\ pc \in {"idle", "evaluating", "executing", "returned", "raised"}
    /\ mode \in {"none", "preferred", "default", "single", "parallel"}
    /\ default_agent \in {NoAgent} \cup Universe
    /\ \A b \in DOMAIN branches : branches[b].agent \in Universe

\* ------------------------------------------- two calls at the same time
\* a frame whose mode is a field of the coordinator, shared by the calls
FrameSharingMode ==
    [pc |-> pc, task |-> task, evals |-> evals, agent_scores |-> agent_scores,
     mode |-> other.mode, label_agents |-> label_agents, branches |-> branches,
     outcome |-> outcome, inflight |-> inflight, completed |-> completed,
     passed |-> passed]

\* the locals of the running process_task call and of its coroutines:
\* everything the call keeps is in locals, nothing in self
Frame ==
    [pc |-> pc, task |-> task, evals |-> evals, agent_scores |-> agent_scores,
     mode |-> mode, label_agents |-> label_agents, branches |-> branches,
     outcome |-> outcome, inflight |-> inflight, completed |-> completed,
     passed |-> passed]

\* the event loop goes from one process_task call to the other one on the
\* same coordinator, at an await of the first
Switch ==
    /\ ctor = "ok"
    /\ other' = Frame
    /\ pc' = other.pc
    /\ task' = other.task
    /\ evals' = other.evals
    /\ agent_scores' = other.agent_scores
    /\ mode' = other.mode
    /\ label_agents' = other.label_agents
    /\ branches' = other.branches
    /\ outcome' = other.outcome
    /\ inflight' = other.inflight
    /\ completed' = other.completed
    /\ passed' = other.passed
    /\ UNCHANGED <<rag, api, config, init_args, evalOut, execOut, spies, history>>

\* the coordinator that is shared
ConstructShared == ConstructUpTo(MaxShared)

NextShared ==
    \/ ConstructShared
    \/ ProcessTask
    \/ \E i \in 1..MaxAgents : Evaluate(i)
    \/ EvaluateRaises
    \/ Rank
    \/ \E b \in 1..MaxAgents : ExecutePrimary(b)
    \/ \E b \in 1..MaxAgents : ExecuteFallback(b)
    \/ ReturnSingle
    \/ RaiseSingle
    \/ ReturnCombined
    \/ RaiseGathered
    \/ Switch

SpecShared == Init /\ [][NextShared]_vars

\* ---------------------------------------------- a call that is carried on
\* one call on a coordinator of at most MaxShared agents
NextLive ==
    \/ ConstructShared
    \/ ProcessTask
    \/ \E i \in 1..MaxAgents : Evaluate(i)
    \/ EvaluateRaises
    \/ Rank
    \/ \E b \in 1..MaxAgents : ExecutePrimary(b)
    \/ \E b \in 1..MaxAgents : ExecuteFallback(b)
    \/ ReturnSingle
    \/ RaiseSingle
    \/ ReturnCombined
    \/ RaiseGathered

\* the event loop runs every coroutine that can go on, and every call of an
\* agent comes to its end
SpecLive == Init /\ [][NextLive]_vars /\ WF_vars(NextLive)

\* =================================================== HybridSearchRetriever
\* (src/rag/retrieval/hybrid_search.py).  A hit is a document id with a
\* score in tenths; the weights are in tenths, combined scores in hundredths.

\* vector_weight and bm25_weight of the constructor
VectorWeight == 7
Bm25Weight == 3

\* the values of self.top_k the model constructs retrievers with
DefaultTopKs == {1, 2}

\* the top_k argument of search: None (<<>>) or a count
Requests == {<<>>, <<0>>, <<1>>, <<2>>}

\* the hits a store can answer with
Hits == [id : {1, 2, 3}, score : {4, 9}]

RECURSIVE SeqsUpTo(_, _)
SeqsUpTo(S, n) ==
    IF n = 0 THEN {<<>>}
    ELSE LET shorter == SeqsUpTo(S, n - 1)
         IN  shorter \cup {Append(q, x) : q \in {r \in shorter : Len(r) = n - 1}, x \in S}

\* what _vector_search or _keyword_search does: raises, or returns hits
StoreAnswers ==
    {[st |-> "raise"]} \cup {[st |-> "ok", hits |-> h] : h \in SeqsUpTo(Hits, MaxHits)}

\* try: ... except Exception: results = []
HitsOrEmpty(answer) == IF answer.st = "ok" THEN answer.hits ELSE <<>>

\* the position of doc_id among the keys of combined_dict, 0 if absent
KeyIndex(d, doc_id) ==
    IF \E i \in 1..Len(d) : d[i].id = doc_id
    THEN CHOOSE i \in 1..Len(d) : d[i].id = doc_id
    ELSE 0

\* lines 207-214: combined_dict[doc_id] = {vector_score, keyword_score 0.0};
\* a key that is assigned again keeps its place in the dict
RECURSIVE PutVector(_, _)
PutVector(d, hits) ==
    IF hits = <<>> THEN d
    ELSE LET e == [id |-> Head(hits).id, vector_score |-> Head(hits).score,
                   keyword_score |-> 0]
             i == KeyIndex(d, e.id)
         IN  PutVector(IF i = 0 THEN Append(d, e) ELSE [d EXCEPT ![i] = e], Tail(hits))

\* lines 217-227: the keyword score of a known document is set, an unknown
\* document is added with vector_score 0.0
RECURSIVE PutKeyword(_, _)
PutKeyword(d, hits) ==
    IF hits = <<>> THEN d
    ELSE LET h == Head(hits)
             i == KeyIndex(d, h.id)
         IN  PutKeyword(
                 IF i = 0
                 THEN Append(d, [id |-> h.id, vector_score |-> 0, keyword_score |-> h.score])
                 ELSE [d EXCEPT ![i].keyword_score = h.score],
                 Tail(hits))

\* lines 232-235: vector_score * vector_weight + keyword_score * bm25_weight
CombinedScore(data) == data.vector_score * VectorWeight + data.keyword_score * Bm25Weight

\* _combine_results of the retriever: merge by document, score, sort
CombineHits(vector_results, keyword_results) ==
    LET d == PutKeyword(PutVector(<<>>, vector_results), keyword_results)
    IN  SortDesc([i \in 1..Len(d) |->
                    [id |-> d[i].id, score |-> CombinedScore(d[i]),
                     vector_score |-> d[i].vector_score,
                     keyword_score |-> d[i].keyword_score]])

\* k = top_k or self.top_k: None and 0 are both falsy
TopK(top_k) == IF top_k # <<>> /\ top_k[1] # 0 THEN top_k[1] ELSE retriever.top_k

\* s[:k] for k >= 0
Slice(s, k) == SubSeq(s, 1, IF k < Len(s) THEN k ELSE Len(s))

\* HybridSearchRetriever(vector_store, top_k=...)
NewRetriever ==
    /\ retriever = NoRetriever
    /\ \E k \in DefaultTopKs : retriever' = [top_k |-> k]
    /\ UNCHANGED <<searched, coordinator, api>>

\* search(query, filters, top_k), lines 57-80.  A search keeps nothing in
\* the retriever, so one search per retriever shows all there is.
Search ==
    /\ retriever # NoRetriever
    /\ searched = NoSearch
    /\ \E top_k \in Requests, v \in StoreAnswers, kw \in StoreAnswers :
        LET k == TopK(top_k)
            combined_results == SortDesc(CombineHits(HitsOrEmpty(v), HitsOrEmpty(kw)))
        IN  searched' = [top_k |-> top_k, vector |-> v, keyword |-> kw,
                         result |-> Slice(combined_results, k)]
    /\ UNCHANGED <<retriever, coordinator, api>>

NextSearch == NewRetriever \/ Search

SpecSearch == Init /\ [][NextSearch]_vars

\* ================================================== the background jobs
\* the task ids uuid4 hands out
TaskIds == 1..MaxJobs

None == "None"

\* the mappings process_task returns to the job: with and without an answer,
\* a confidence, a reasoning_process and sources
ProcessTaskReturns ==
    {[answer |-> "text", agent_name |-> "A", confidence |-> 8, sources |-> "docs"],
     [answer |-> "text", agent_name |-> "B", reasoning_process |-> "steps"],
     [agent_name |-> "C"]}

\* mapping.get(key, default)
Get(mapping, key, default) == IF key \in DOMAIN mapping THEN mapping[key] ELSE default

\* process_query_async, lines 106-142: a new id, its entry, the job handed
\* to the background tasks, and the response
ProcessQueryAsync ==
    \E task_id \in TaskIds \ DOMAIN TASKS :
        /\ TASKS' = TASKS @@ (task_id :> [status |-> "queued", progress |-> 0])
        /\ jobs' = [jobs EXCEPT ![task_id] = "scheduled"]
        /\ reply' = [http |-> 200, task_id |-> task_id, status |-> "queued", progress |-> 0]
        /\ UNCHANGED <<coordinator, rag>>

\* process_task_in_background, lines 110-115: up to the await of process_task
JobStart(task_id) ==
    /\ jobs[task_id] = "scheduled"
    /\ TASKS' = [TASKS EXCEPT ![task_id] = [@ EXCEPT !.status = "processing"]]
    /\ jobs' = [jobs EXCEPT ![task_id] = "awaiting"]
    /\ UNCHANGED <<reply, coordinator, rag>>

\* lines 118-128: process_task returned
JobReturn(task_id) ==
    /\ jobs[task_id] = "awaiting"
    /\ \E result \in ProcessTaskReturns :
        TASKS' = [TASKS EXCEPT ![task_id] =
            [status |-> "completed",
             progress |-> 1,
             result |-> [answer |-> Get(result, "answer", "No answer generated"),
                         agent_name |-> Get(result, "agent_name", "Unknown"),
                         confidence |-> Get(result, "confidence", 0),
                         thinking_process |-> Get(result, "reasoning_process", None),
                         sources |-> Get(result, "sources", None)]]]
    /\ jobs' = [jobs EXCEPT ![task_id] = "returned"]
    /\ UNCHANGED <<reply, coordinator, rag>>

\* a job that lets the exception of process_task go on to its caller
JobRaisePropagating(task_id) ==
    /\ jobs[task_id] = "awaiting"
    /\ jobs' = [jobs EXCEPT ![task_id] = "raised"]
    /\ UNCHANGED <<TASKS, reply, coordinator, rag>>

\* lines 129-134: process_task raised
JobRaise(task_id) ==
    /\ jobs[task_id] = "awaiting"
    /\ TASKS' = [TASKS EXCEPT ![task_id] = [status |-> "failed", error |-> "error"]]
    /\ jobs' = [jobs EXCEPT ![task_id] = "raised"]
    /\ UNCHANGED <<reply, coordinator, rag>>

\* get_task_status, lines 155-177
GetTaskStatus(task_id) ==
    /\ reply' =
        IF task_id \notin DOMAIN TASKS
        THEN [http |-> 404, task_id |-> task_id]
        ELSE LET task_info == TASKS[task_id]
             IN  IF Get(task_info, "status", None) = "completed"
                 THEN [http |-> 200, task_id |-> task_id, status |-> "completed",
                       result |-> Get(task_info, "result", <<>>)]
                 ELSE [http |-> 200, task_id |-> task_id,
                       status |-> Get(task_info, "status", "unknown"),
                       progress |-> Get(task_info, "progress", 0),
                       error |-> Get(task_info, "error", None)]
    /\ UNCHANGED <<TASKS, jobs, coordinator, rag>>

NextJobs ==
    \/ ProcessQueryAsync
    \/ \E task_id \in TaskIds : JobStart(task_id)
    \/ \E task_id \in TaskIds : JobReturn(task_id)
    \/ \E task_id \in TaskIds : JobRaise(task_id)
    \/ \E task_id \in TaskIds : GetTaskStatus(task_id)

SpecJobs == Init /\ [][NextJobs]_vars

\* ================================================================ claims
Finished == pc \in {"returned", "raised"}

\* log_activity or process of the agent raised when it was executed
Failed(h) == execOut[h].st \in {"log_raise", "proc_raise"}

\* the registration indexes whose name is the requested one, ignoring case
Matching(t) ==
    IF "preferred_agent" \in DOMAIN t
    THEN {i \in 1..Len(agents) : lower(names[agents[i]]) = lower(t.preferred_agent)}
    ELSE {}

\* the registered agent the task's preferred field names
Named(t) == agents[CHOOSE i \in Matching(t) : \A j \in Matching(t) : i <= j]

\* every registered agent was asked and returned a score
AllScored ==
    \A i \in 1..Len(agents) :
        i \in DOMAIN evals /\ evals[i] = "done" /\ evalOut[agents[i]].st = "ok"

ScoreOf(h) == evalOut[h].score

\* C1: when the top-ranked handler's process raises and that handler is not
\* the default handler, the result process_task returns has the default
\* handler's name as agent_name.
C1_FallbackResultNamesDefault ==
    (/\ pc = "returned"
     /\ mode = "single"
     /\ branches[1].agent # default_agent
     /\ execOut[branches[1].agent].st = "proc_raise")
    => outcome.result.agent_name = names[default_agent]

C3_OneShotFallback ==
    (Finished /\ mode \in {"preferred", "default", "single"})
    => LET a == branches[1].agent
           d == default_agent
       IN  /\ (a # d /\ execOut[a].st = "proc_raise")
                => /\ procCalls[a] = 1 /\ procCalls[d] = 1
                   /\ pc = "returned" => outcome.result.content = d
                   /\ pc = "raised" => execOut[d].st = "proc_raise"
           /\ (a = d /\ execOut[a].st = "proc_raise")
                => pc = "raised" /\ procCalls[d] = 1
           /\ \A h \in Universe \ {a, d} : procCalls[h] = 0

\* C4: in a fan-out process_task neither returns nor raises while a branch
\* is still running.
C4_WaitsForEveryBranch ==
    (Finished /\ mode = "parallel") => inflight = {}

\* C5: an evaluate_suitability that raises counts as score 0.0 and does not
\* abort process_task.
C5_RaisingEvaluatorIsZero ==
    ~(outcome.kind = "raised" /\ outcome.at = "evaluate")

\* the registered handlers whose suitability score reaches the threshold
Qualifying == {agents[i] : i \in {j \in 1..Len(agents) :
                   ScoreOf(agents[j]) >= confidence_threshold}}

\* C6: in parallel mode with at least two candidates at or above the
\* threshold, process is invoked on exactly those candidates, and the
\* returned result has the content and the agent_name of the executed
\* handler whose result has the highest confidence.
C6_FanOutRunsQualifyingOnly ==
    (/\ Quiescent /\ enable_parallel /\ Matching(task) = {} /\ AllScored
     /\ Cardinality(Qualifying) >= 2)
    => /\ {h \in Universe : procCalls[h] > 0} = Qualifying
       /\ pc = "returned" =>
            /\ outcome.result.agent_name = names[outcome.result.content]
            /\ outcome.result.content \in Qualifying
            /\ \A h \in Qualifying :
                 execOut[h].st = "ok" =>
                   GetConfidence(ResultOf(h, execOut[h])) <= GetConfidence(outcome.result)

TopScorers ==
    {i \in 1..Len(agents) :
        /\ ScoreOf(agents[i]) > 0
        /\ \A j \in 1..Len(agents) : ScoreOf(agents[j]) <= ScoreOf(agents[i])}

\* C8: in non-parallel mode the handler that is executed is the earliest
\* registered handler among those with the maximal positive score.
C8_EarliestTopScorerRuns ==
    (pc \in {"executing", "returned", "raised"} /\ ~enable_parallel
     /\ Matching(task) = {} /\ AllScored /\ TopScorers # {})
    => /\ Len(branches) = 1
       /\ branches[1].agent = agents[CHOOSE i \in TopScorers : \A j \in TopScorers : i <= j]

\* the task without its preferred field
Omit(t) == [query |-> t.query]

\* the task has a preferred field that names no registered handler
Unmatched(t) == "preferred_agent" \in DOMAIN t /\ Matching(t) = {}

C10_EmptyRegistryRejected ==
    (ctor # "none" /\ Len(agents) = 0)
    => /\ ctor = "config_error"
       /\ pc = "idle" /\ outcome = NoOutcome
       /\ \A h \in Universe : evalCalls[h] = 0 /\ logCalls[h] = 0 /\ procCalls[h] = 0

\* C10 witness: the empty list was rejected although a default was supplied
C10_Witness ==
    /\ ctor = "config_error"
    /\ Len(agents) = 0
    /\ default_agent # NoAgent

\* the agents process_task executed in this call
Executed == {branches[b].agent : b \in DOMAIN branches}

\* C11: every mapping process_task returns, on every path, has the keys
\* agent_name, agent_description and execution_time with the values the
\* coordinator sets: the name and the description of one handler it executed
\* and the elapsed time; what the handler put under these keys is gone.
C11_CoordinatorLabelsWin ==
    pc = "returned"
    => LET r == outcome.result
       IN  /\ {"agent_name", "agent_description", "execution_time"} \subseteq DOMAIN r
           /\ \E a \in Executed : r.agent_name = names[a] /\ r.agent_description = a
           /\ r.execution_time = "elapsed"

\* C11 witness: a fan-out returned the result of a handler that had put its
\* own values under the three keys
C11_Witness ==
    /\ pc = "returned"
    /\ mode = "parallel"
    /\ SelfLabelled(outcome.result.content)
    /\ \E b \in DOMAIN branches :
           /\ branches[b].result.content = outcome.result.content
           /\ branches[b].result.agent_name = "self"

\* a returned mapping without its execution_time
ApartFromTime(r) == [k \in DOMAIN r \ {"execution_time"} |-> r[k]]

C13_NonPositiveRunsOnlyAsDefault ==
    (pc \in {"executing", "returned", "raised"} /\ Matching(task) = {} /\ AllScored)
    => /\ \A k \in DOMAIN agent_scores :
            agent_scores[k].score > 0 /\ ScoreOf(agent_scores[k].src) > 0
       /\ \A i \in 1..Len(agents) :
            LET h == agents[i]
            IN  (ScoreOf(h) <= 0 /\ (h \in Executed \/ logCalls[h] > 0))
                => /\ h = default_agent
                   /\ h \in Executed => \A j \in 1..Len(agents) : ScoreOf(agents[j]) <= 0

\* C14: when the task's preferred field matches a registered handler, no
\* handler's evaluate_suitability is invoked during that process_task call:
\* no evaluation is started and nothing is ranked.
C14_OverrideSkipsEvaluation ==
    (pc # "idle" /\ Matching(task) # {})
    => /\ \A h \in Universe : evalCalls[h] = 0
       /\ evals = <<>>
       /\ agent_scores = <<>>

\* C14 witness: a call that named a handler in another letter case returned,
\* on a coordinator with several handlers
C14_Witness ==
    /\ pc = "returned"
    /\ Len(agents) >= 2
    /\ Matching(task) # {}
    /\ task.preferred_agent = "a"
    /\ names[Named(task)] = "A"
    /\ procCalls[Named(task)] = 1

\* the names a caller may look up
LookupNames == {"", "A", "a", "B", "b", "C", "c", "Z"}

\* the registration indexes of the handlers named n, ignoring letter case
IndexesNamed(n) == {i \in 1..Len(agents) : lower(names[agents[i]]) = lower(n)}

\* C15: the lookup of a handler by name returns the registered handler,
\* first in registration order, whose name equals the requested name
\* ignoring letter case, and None when no registered name matches, on
\* every registry a coordinator is constructed with; the handler a preferred
\* field selects is the one this lookup returns.
C15_LookupFirstIgnoringCase ==
    ctor = "ok"
    => /\ pc = "idle" =>
            \A n \in LookupNames :
                IF IndexesNamed(n) = {} THEN GetAgentByName(n) = NoAgent
                ELSE \E i \in IndexesNamed(n) :
                        /\ GetAgentByName(n) = agents[i]
                        /\ \A j \in IndexesNamed(n) : i <= j
       /\ mode = "preferred" =>
            \E i \in IndexesNamed(task.preferred_agent) :
                /\ branches[1].agent = agents[i]
                /\ \A j \in IndexesNamed(task.preferred_agent) : i <= j

\* C15 witness: two registered handlers are named "A" and "a"; the lookup
\* of "a" selected the first of them, whose name has the other case
C15_Witness ==
    /\ mode = "preferred"
    /\ task.preferred_agent = "a"
    /\ Cardinality(IndexesNamed("a")) = 2
    /\ branches[1].agent = agents[1]
    /\ names[agents[1]] = "A"

\* C16: after construction with a non-empty handler list the default
\* handler is the one supplied, when one was supplied, and the first
\* registered handler otherwise; a constructed coordinator always has a
\* default handler.
C16_DefaultSuppliedOrFirst ==
    ctor = "ok"
    => /\ Len(agents) > 0
       /\ default_agent # NoAgent
       /\ init_args # <<>> =>
            default_agent = (IF init_args[1] # NoAgent THEN init_args[1] ELSE agents[1])

\* C16 witness: a coordinator of several handlers was constructed without
\* a default and has the first one as its default
C16_Witness ==
    /\ ctor = "ok"
    /\ init_args = <<NoAgent>>
    /\ Len(agents) >= 2
    /\ default_agent = agents[1]

\* C17: search returns at most k results, where k is the requested
\* result count, or the retriever's default when none is requested, and the
\* returned list is in the order of non-increasing combined score.
C17_AtMostKByScore ==
    searched # NoSearch
    => LET k == IF searched.top_k = <<>> THEN retriever.top_k ELSE searched.top_k[1]
           r == searched.result
       IN  /\ Len(r) <= k
           /\ \A i, j \in 1..Len(r) : i < j => r[i].score >= r[j].score

\* the registration indexes of the ranked candidates (score above 0)
Ranked == {i \in 1..Len(agents) : ScoreOf(agents[i]) > 0}

\* the condition of the fan-out, on the scores the handlers returned
FanOutDue ==
    /\ enable_parallel
    /\ Cardinality(Ranked) > 1
    /\ Cardinality({i \in Ranked : ScoreOf(agents[i]) >= confidence_threshold}) >= 2

\* C18: when candidates are ranked, process_task fans out if and only if
\* enable_parallel is true, more than one candidate is ranked and at least
\* two ranked candidates have a score >= confidence_threshold; in every
\* other case it executes exactly the top-ranked candidate, whatever its
\* score.
C18_FanOutIffTwoQualify ==
    (pc \in {"executing", "returned", "raised"} /\ Matching(task) = {} /\ AllScored
     /\ Ranked # {})
    => IF FanOutDue
       THEN Len(branches) >= 2
       ELSE /\ Len(branches) = 1
            /\ branches[1].agent =
                   agents[CHOOSE i \in TopScorers : \A j \in TopScorers : i <= j]

\* the confidence of the result of the b-th fan-out branch, 0 when the
\* result has no confidence field
BranchConfidence(b) ==
    IF "confidence" \in DOMAIN branches[b].result THEN branches[b].result.confidence ELSE 0

\* the fan-out indexes whose result has the maximal confidence
MostConfident ==
    {b \in DOMAIN branches : \A c \in DOMAIN branches : BranchConfidence(c) <= BranchConfidence(b)}

\* a returned mapping without the three keys the coordinator sets
HandlerFields(r) ==
    [k \in DOMAIN r \ {"agent_name", "agent_description", "execution_time"} |-> r[k]]

C20_FanOutLabelsProducer ==
    (pc = "returned" /\ Len(branches) >= 2)
    => /\ outcome.result.agent_name = names[outcome.result.content]
       /\ outcome.result.agent_description = outcome.result.content

\* C21: the fallback on the default handler is triggered only by a failure
\* of the selected handler's process call: a branch is in its fallback only
\* after process was called on its handler and raised, and when the
\* handler's process returns a result, process_task returns that result and
\* no process call is made on the default handler for it.
C21_FallbackOnlyWhenProcessFailed ==
    /\ \A b \in DOMAIN branches :
          branches[b].pc = "fallback"
          => /\ procCalls[branches[b].agent] >= 1
             /\ execOut[branches[b].agent].st = "proc_raise"
    /\ (pc = "returned" /\ Len(branches) = 1 /\ execOut[branches[1].agent].st = "ok")
       => /\ outcome.result.content = branches[1].agent
          /\ branches[1].agent # default_agent => procCalls[default_agent] = 0

\* the fan-out branches whose handler is not the default handler and failed
FailedBranches ==
    {b \in DOMAIN branches : branches[b].agent # default_agent /\ Failed(branches[b].agent)}

\* the fan-out branches that run the default handler itself and reached process
DefaultBranches ==
    {b \in DOMAIN branches :
        branches[b].agent = default_agent /\ execOut[default_agent].st # "log_raise"}

\* C22: in a fan-out every branch whose non-default handler fails makes its
\* own single retry on the default handler: once every branch has run to its
\* end, the retry process calls on the default handler are as many as the
\* failed non-default branches, and a branch whose handler succeeded has
\* that handler's result whatever the other branches did.
C22_OneRetryPerFailedBranch ==
    (Quiescent /\ Len(branches) >= 2)
    => /\ procCalls[default_agent] - Cardinality(DefaultBranches)
            = Cardinality(FailedBranches)
       /\ \A b \in DOMAIN branches :
            execOut[branches[b].agent].st = "ok"
            => /\ branches[b].pc = "done"
               /\ branches[b].result.content = branches[b].agent

\* the ranked candidates at or above the threshold, in ranked order
Candidates == SelectSeq(agent_scores, LAMBDA e : e.score >= confidence_threshold)

\* the registration index of a registered handler
IndexOf(h) == CHOOSE i \in 1..Len(agents) : agents[i] = h

\* C23: the result of a fan-out depends only on the fan-out order and on the
\* confidences of the branch results, never on the order in which the
\* branches finish: the branches are the candidates by descending score,
\* equal scores in registration order, and the result returned is the first
\* of the most confident results in that order.
C23_FanOutOrderNotCompletionOrder ==
    (pc = "returned" /\ Len(branches) >= 2)
    => /\ Len(Candidates) = Len(branches)
       /\ \A b \in DOMAIN branches :
            lower(names[branches[b].agent]) = lower(Candidates[b].name)
       /\ \A b, c \in DOMAIN branches :
            b < c => \/ Candidates[b].score > Candidates[c].score
                     \/ /\ Candidates[b].score = Candidates[c].score
                        /\ IndexOf(Candidates[b].src) < IndexOf(Candidates[c].src)
       /\ LET first_best == CHOOSE x \in MostConfident : \A y \in MostConfident : x <= y
          IN  /\ HandlerFields(outcome.result) = HandlerFields(branches[first_best].result)
              /\ outcome.result.agent_name = names[branches[first_best].agent]

\* C23 witness: the second branch of a fan-out finished before the first,
\* both results have the same confidence and come from different handlers
C23_Witness ==
    /\ pc = "returned"
    /\ Len(branches) = 2
    /\ completed = <<2, 1>>
    /\ BranchConfidence(1) = BranchConfidence(2)
    /\ branches[1].result.content # branches[2].result.content
    /\ outcome.result.content = branches[1].result.content

AloneExecute(a) ==
    IF execOut[a].st = "ok" THEN [ok |-> TRUE, result |-> ResultOf(a, execOut[a])]
    ELSE IF a # default_agent /\ execOut[default_agent].st = "ok"
         THEN [ok |-> TRUE, result |-> ResultOf(default_agent, execOut[default_agent])]
         ELSE [ok |-> FALSE]

AloneSingle(a) ==
    IF AloneExecute(a).ok
    THEN [kind |-> "result", result |-> PrepareResult(AloneExecute(a).result, a)]
    ELSE [kind |-> "raised", at |-> "execute"]

\* what process_task(t) returns or raises when it is the only call, from
\* what the agents do on the task
Alone(t) ==
    IF PreferredAgent(t) # NoAgent THEN AloneSingle(PreferredAgent(t))
    ELSE IF \E i \in 1..Len(agents) : evalOut[agents[i]].st = "raise"
         THEN [kind |-> "raised", at |-> "evaluate"]
    ELSE LET ranked == EvaluateAgents([i \in 1..Len(agents) |-> evalOut[agents[i]].score])
             fan == ParallelAgents(ranked)
         IN  IF ranked = <<>> THEN AloneSingle(default_agent)
             ELSE IF enable_parallel /\ Len(ranked) > 1 /\ Len(fan) > 1
                  THEN IF \E b \in 1..Len(fan) : ~AloneExecute(fan[b]).ok
                       THEN [kind |-> "raised", at |-> "execute"]
                       ELSE [kind |-> "result",
                             result |-> CombineResults(
                                 [b \in 1..Len(fan) |-> AloneExecute(fan[b]).result], fan)]
                  ELSE AloneSingle(GetAgentByName(ranked[1].name))

\* two outcomes are the same apart from execution_time
SameOutcome(x, y) ==
    /\ x.kind = y.kind
    /\ x.kind = "raised" => x.at = y.at
    /\ x.kind = "result" => ApartFromTime(x.result) = ApartFromTime(y.result)

\* C25: of two process_task calls interleaved on one coordinator, with
\* handlers that do on a task what they do when called alone, each returns
\* or raises what it does when it is the only call (apart from
\* execution_time), and no step of process_task changes the handler list,
\* the default handler, enable_parallel or confidence_threshold.
C25_InterleavedCallsAsAlone ==
    /\ [](Quiescent => SameOutcome(outcome, Alone(task)))
    /\ [][ctor = "ok" =>
            UNCHANGED <<agents, names, default_agent, enable_parallel,
                        confidence_threshold>>]_vars

\* C25 witness: a fan-out call returned while the other call, with another
\* task, was in the middle of its execution
C25_Witness ==
    /\ Quiescent /\ pc = "returned" /\ mode = "parallel"
    /\ other.pc = "executing"
    /\ other.task # task
    /\ \E b \in DOMAIN other.branches : other.branches[b].pc = "done"

\* C26: the coordinator never modifies the task mapping: every
\* evaluate_suitability and process call of a process_task invocation, the
\* fallback retry on the default handler included, receives the caller's
\* task with all its fields.
C26_AgentsReceiveCallersTask ==
    \A t \in passed : t = task

\* C26 witness: a task with a preferred field that matches nobody was
\* evaluated, executed and retried on the default handler
C26_Witness ==
    /\ Quiescent
    /\ "preferred_agent" \in DOMAIN task
    /\ passed # {}
    /\ \E i \in 1..Len(agents) : evalCalls[agents[i]] > 0
    /\ \E b \in DOMAIN branches :
          /\ branches[b].agent # default_agent
          /\ execOut[branches[b].agent].st = "proc_raise"
          /\ procCalls[default_agent] > 0

\* the three keys the coordinator sets
CoordinatorKeys == {"agent_name", "agent_description", "execution_time"}

\* the branch whose result is returned: the only one, or the first of the
\* most confident
Winner ==
    IF Len(branches) = 1 THEN 1
    ELSE CHOOSE x \in MostConfident : \A y \in MostConfident : x <= y

\* C27: enrichment leaves the handler's data untouched: every key of the
\* winning result other than agent_name, agent_description and
\* execution_time is in the returned mapping with the same value, no key
\* other than those three is added, and the results of the losing fan-out
\* branches contribute no field.
C27_OnlyThreeKeysAdded ==
    pc = "returned"
    => LET won == branches[Winner].result
       IN  /\ DOMAIN outcome.result = DOMAIN won \cup CoordinatorKeys
           /\ \A k \in DOMAIN won \ CoordinatorKeys : outcome.result[k] = won[k]

\* C27 witness: in a fan-out the result without sources won against a
\* result with sources, and was returned without them
C27_Witness ==
    /\ pc = "returned"
    /\ Len(branches) >= 2
    /\ "sources" \notin DOMAIN branches[Winner].result
    /\ \E b \in DOMAIN branches : "sources" \in DOMAIN branches[b].result
    /\ "sources" \notin DOMAIN outcome.result

\* C28: when every evaluate_suitability and process call comes to an end,
\* every process_task call returns or raises; the coordinator does not
\* loop: it evaluates a handler once, and runs a handler once for each
\* branch that selected it, with at most one retry on the default handler
\* for each branch.
C28_ProcessTaskEnds ==
    /\ [](/\ \A h \in Universe : evalCalls[h] <= 1
          /\ \A h \in Universe \ {default_agent} :
                logCalls[h] <= Cardinality({b \in DOMAIN branches : branches[b].agent = h})
          /\ ctor = "ok" => logCalls[default_agent] <= Len(branches))
    /\ (pc \in {"evaluating", "executing"}) ~> (pc \in {"returned", "raised"})

\* C28 witness: a fan-out in which a branch went to its fallback has ended
C28_Witness ==
    /\ Quiescent
    /\ mode = "parallel"
    /\ \E b \in DOMAIN branches :
          /\ branches[b].agent # default_agent
          /\ Failed(branches[b].agent)
          /\ logCalls[default_agent] >= 1

\* the handlers whose evaluate_suitability produced the scores of the ranked
\* candidates the call executes: the first one, or those of the fan-out
Scorers ==
    IF mode = "parallel"
    THEN {agent_scores[k].src : k \in {j \in DOMAIN agent_scores :
                                        agent_scores[j].score >= confidence_threshold}}
    ELSE {agent_scores[1].src}

\* C29: on every registry the constructor accepts, each ranked candidate
\* the coordinator executes, as top-ranked handler or as fan-out member, is
\* the handler whose evaluate_suitability produced the candidate's score:
\* the ranked name resolves to that handler and never to no handler.
C29_RankedNameResolvesToScorer ==
    (pc \in {"executing", "returned", "raised"} /\ mode \in {"single", "parallel"}
     /\ Matching(task) = {})
    => /\ \A k \in DOMAIN agent_scores :
            GetAgentByName(agent_scores[k].name) = agent_scores[k].src
       /\ \A b \in DOMAIN branches : branches[b].agent # NoAgent
       /\ Executed = Scorers

\* the moves of a status the store may make
StatusMoves ==
    {<<"queued", "processing">>, <<"processing", "completed">>, <<"processing", "failed">>}

\* C30: in the status store of the background jobs, the status of every
\* task id the async-query endpoint created starts as queued and only moves
\* queued -> processing -> completed or failed; an entry that is completed
\* or failed changes no more; when process_task raises inside the job the
\* entry says failed; no entry is removed, and a status query for an
\* issued id is never answered with not-found.
C30_StatusOnlyMovesForward ==
    /\ [](/\ \A id \in TaskIds : jobs[id] = "raised" => TASKS[id].status = "failed"
          /\ \A id \in TaskIds : jobs[id] # "none" <=> id \in DOMAIN TASKS
          /\ (reply # NoReply /\ reply.task_id \in DOMAIN TASKS) => reply.http = 200)
    /\ [][(\A id \in DOMAIN TASKS :
              /\ id \in DOMAIN TASKS'
              /\ TASKS'[id].status # TASKS[id].status
                  => <<TASKS[id].status, TASKS'[id].status>> \in StatusMoves
              /\ TASKS[id].status \in {"completed", "failed"} => TASKS'[id] = TASKS[id])
           /\ (\A new \in DOMAIN TASKS' \ DOMAIN TASKS : TASKS'[new].status = "queued")]_vars

\* C30 witness: one job has completed, another has failed after
\* process_task raised, and the status of the failed one was asked for
C30_Witness ==
    /\ \E id \in DOMAIN TASKS : TASKS[id].status = "completed" /\ jobs[id] = "returned"
    /\ reply # NoReply
    /\ reply.task_id \in DOMAIN TASKS
    /\ jobs[reply.task_id] = "raised"
    /\ reply.status = "failed"

====
